---- MODULE Spec2Model ----
(***************************************************************************)
(* Content-type gating and course-duration-limit policy of edx-platform:   *)
(*   openedx/features/content_type_gating/partitions.py                    *)
(*   openedx/features/course_duration_limits/models.py                     *)
(*                                                                         *)
(* Every operation is a synchronous read-only evaluation over the stores   *)
(* it consults (waffle flags, course modes, enrollments, masquerade state, *)
(* stacked configuration).  The stores are the state; an action is one     *)
(* call of an operation and records, in `last`, the arguments, the outcome *)
(* (a returned value or a raised exception), the log records emitted and   *)
(* the stores queried.                                                     *)
(***************************************************************************)
EXTENDS Integers, Sequences, FiniteSets, TLC

VARIABLES
    gating_flag,       \* CONTENT_TYPE_GATING_FLAG.is_enabled()
    studio_ui_flag,    \* CONTENT_TYPE_GATING_STUDIO_UI_FLAG.is_enabled()
    scheme_registry,   \* scheme names UserPartition.get_scheme can find
    course_modes,      \* course key -> slugs of the CourseMode rows of the course
    enrollments,       \* <<user, course key>> -> CourseEnrollment row or NoneObj
    masquerade,        \* <<user, course key>> -> CourseMasquerade or NoneObj
    duration_config,   \* course key -> resolved (stacked) CourseDurationLimitConfig
    today,             \* datetime.utcnow().date()
    last               \* the last call: arguments, outcome, log, stores queried

vars == <<gating_flag, studio_ui_flag, scheme_registry, course_modes, enrollments,
          masquerade, duration_config, today, last>>

----------------------------------------------------------------------------
(* Bounds of the model *)

\* dates are the days 0 .. MaxDate
MaxDate == 1
\* a course carries at most MaxPartitions partitions of its own
MaxPartitions == 2

Dates == 0 .. MaxDate

----------------------------------------------------------------------------
(* Python values *)

\* None where an object is expected
NoneObj == [py_none |-> TRUE]
\* None where a string (slug, user, course key) is expected
NoneStr == "None"
\* None where a date is expected
NoneDate == -1

Return(v) == [kind |-> "return", value |-> v]
Raise(e) == [kind |-> "raise", exc |-> e]

\* what one call did: its outcome, the log records it emitted, the stores it read
Effect(outcome, log, queried) == [ret |-> outcome, log |-> log, queried |-> queried]

Users == {"staff"}
Courses == {"course-v1:A", "course-v1:B"}

AUDIT == "audit"
VERIFIED == "verified"
ModeSlugs == {AUDIT, VERIFIED, "honor"}

CONTENT_GATING_PARTITION_ID == 51

CONTENT_TYPE_GATE_GROUP_IDS == [limited_access |-> 1, full_access |-> 2]

Group(id, name) == [id |-> id, name |-> name]

LIMITED_ACCESS == Group(CONTENT_TYPE_GATE_GROUP_IDS.limited_access, "Limited-access Users")
FULL_ACCESS == Group(CONTENT_TYPE_GATE_GROUP_IDS.full_access, "Full-access Users")

----------------------------------------------------------------------------
(* Collaborators of get_group_for_user *)

get_course_masquerade(user, course_key) == masquerade[<<user, course_key>>]

is_masquerading_as_specific_student(user, course_key) ==
    LET course_masquerade == get_course_masquerade(user, course_key)
    IN  course_masquerade # NoneObj /\ course_masquerade.user_name # NoneStr

get_masquerading_user_group(course_key, user, user_partition) ==
    get_course_masquerade(user, course_key).group

\* CourseMode.modes_for_course(course_key, include_expired=True, only_selectable=False)
modes_for_course(course_key) == course_modes[course_key]

has_verified_mode(modes_dict) == VERIFIED \in modes_dict

\* CourseMode.mode_for_course(course_key, mode_slug, modes=modes): the mode or None
mode_for_course(course_key, mode_slug, modes) ==
    IF mode_slug \in modes THEN mode_slug ELSE NoneStr

\* CourseEnrollment.enrollment_mode_for_user: (mode, is_active), (None, None) when
\* the user has no enrollment; the None of is_active is kept as its truth value
enrollment_mode_for_user(user, course_key) ==
    LET enrollment == enrollments[<<user, course_key>>]
    IN  IF enrollment = NoneObj
        THEN [mode_slug |-> NoneStr, is_active |-> FALSE]
        ELSE [mode_slug |-> enrollment.mode, is_active |-> enrollment.is_active]

----------------------------------------------------------------------------
(* ContentTypeGatingPartitionScheme.get_group_for_user *)

UnknownModeError(user, mode_slug, course_key) ==
    [level |-> "error", user |-> user, mode |-> mode_slug, course |-> course_key]

enrolled_group_audit_full(course_key, user, mode_slug, modes) ==
    IF mode_for_course(course_key, mode_slug, modes) = NoneStr
    THEN Effect(Return(FULL_ACCESS),
                <<UnknownModeError(user, mode_slug, course_key)>>,
                {"CourseMode", "CourseEnrollment"})
    ELSE Effect(Return(FULL_ACCESS), <<>>, {"CourseMode", "CourseEnrollment"})

enrolled_group_unknown_by_slug(course_key, user, mode_slug, modes) ==
    IF mode_slug = AUDIT
    THEN Effect(Return(LIMITED_ACCESS), <<>>, {"CourseMode", "CourseEnrollment"})
    ELSE IF mode_for_course(course_key, mode_slug, modes) = NoneStr
    THEN Effect(Return(FULL_ACCESS),
                <<UnknownModeError(user, mode_slug, course_key)>>,
                {"CourseMode", "CourseEnrollment"})
    ELSE Effect(Return(FULL_ACCESS), <<>>, {"CourseMode", "CourseEnrollment"})

\* the branch of an active enrollment
enrolled_group(course_key, user, mode_slug, modes) ==
    IF mode_for_course(course_key, mode_slug, modes) = NoneStr
    THEN Effect(Return(FULL_ACCESS),
                <<UnknownModeError(user, mode_slug, course_key)>>,
                {"CourseMode", "CourseEnrollment"})
    ELSE IF mode_slug = AUDIT
    THEN Effect(Return(LIMITED_ACCESS), <<>>, {"CourseMode", "CourseEnrollment"})
    ELSE Effect(Return(FULL_ACCESS), <<>>, {"CourseMode", "CourseEnrollment"})

group_for_enrollment_any_activity(course_key, user, modes) ==
    LET em == enrollment_mode_for_user(user, course_key)
    IN  IF em.mode_slug # NoneStr
        THEN enrolled_group(course_key, user, em.mode_slug, modes)
        ELSE Effect(Return(LIMITED_ACCESS), <<>>, {"CourseMode", "CourseEnrollment"})

\* the enrollment lookup and what follows it
group_for_enrollment(course_key, user, modes) ==
    LET em == enrollment_mode_for_user(user, course_key)
    IN  IF em.mode_slug # NoneStr /\ em.is_active
        THEN enrolled_group(course_key, user, em.mode_slug, modes)
        ELSE Effect(Return(LIMITED_ACCESS), <<>>, {"CourseMode", "CourseEnrollment"})

\* the condition of the masquerade override
is_group_masquerade(user, course_key) ==
    /\ get_course_masquerade(user, course_key) # NoneObj
    /\ ~is_masquerading_as_specific_student(user, course_key)

get_group_for_user_flag_first(course_key, user, user_partition) ==
    IF ~gating_flag
    THEN Effect(Return(FULL_ACCESS), <<>>, {})
    ELSE IF is_group_masquerade(user, course_key)
    THEN Effect(Return(get_masquerading_user_group(course_key, user, user_partition)),
                <<>>, {})
    ELSE LET modes == modes_for_course(course_key)
         IN  IF ~has_verified_mode(modes)
             THEN Effect(Return(FULL_ACCESS), <<>>, {"CourseMode"})
             ELSE group_for_enrollment(course_key, user, modes)

get_group_for_user_gate_unverified(course_key, user, user_partition) ==
    IF is_group_masquerade(user, course_key)
    THEN Effect(Return(get_masquerading_user_group(course_key, user, user_partition)),
                <<>>, {})
    ELSE IF ~gating_flag
    THEN Effect(Return(FULL_ACCESS), <<>>, {})
    ELSE group_for_enrollment(course_key, user, modes_for_course(course_key))

get_group_for_user(course_key, user, user_partition) ==
    IF is_group_masquerade(user, course_key)
    THEN Effect(Return(get_masquerading_user_group(course_key, user, user_partition)),
                <<>>, {})
    ELSE IF ~gating_flag
    THEN Effect(Return(FULL_ACCESS), <<>>, {})
    ELSE LET modes == modes_for_course(course_key)
             modes_dict == modes
         IN  IF ~has_verified_mode(modes_dict)
             THEN Effect(Return(FULL_ACCESS), <<>>, {"CourseMode"})
             ELSE group_for_enrollment(course_key, user, modes)

----------------------------------------------------------------------------
(* create_content_gating_partition *)

\* UserPartition.get_scheme(name): the scheme, or UserPartitionError
get_scheme(name) ==
    IF name \in scheme_registry THEN Return(name) ELSE Raise("UserPartitionError")

\* the first partition of the list with the id, or None
_get_partition_from_id(partitions, user_partition_id) ==
    LET found == {i \in 1 .. Len(partitions) : partitions[i].id = user_partition_id}
    IN  IF found = {}
        THEN NoneObj
        ELSE partitions[CHOOSE i \in found : \A j \in found : i <= j]

\* ContentTypeGatingPartitionScheme.create_user_partition: groups and active
\* are accepted and ignored
create_user_partition(id, name, description, groups, parameters, active) ==
    [id |-> id, name |-> name, description |-> description,
     groups |-> <<LIMITED_ACCESS, FULL_ACCESS>>,
     scheme |-> "content_type_gate",
     parameters |-> parameters,
     active |-> TRUE]

NoSchemeWarning == [level |-> "warning", what |-> "no content_type_gate scheme"]

IdAssignedWarning(id, partition_name, course_id) ==
    [level |-> "warning", what |-> "id assigned", id |-> id,
     partition |-> partition_name, course |-> course_id]

create_content_gating_partition_quiet_collision(course) ==
    IF ~(gating_flag \/ studio_ui_flag)
    THEN Effect(Return(NoneObj), <<>>, {})
    ELSE IF get_scheme("content_type_gate").kind = "raise"
    THEN Effect(Return(NoneObj), <<NoSchemeWarning>>, {})
    ELSE LET used_ids == {course.user_partitions[i].id :
                              i \in 1 .. Len(course.user_partitions)}
         IN  IF CONTENT_GATING_PARTITION_ID \in used_ids
             THEN Effect(Return(NoneObj), <<>>, {})
             ELSE Effect(Return(create_user_partition(
                             CONTENT_GATING_PARTITION_ID,
                             "Feature-based Enrollments",
                             "Partition for segmenting users by access to gated content types",
                             NoneObj,
                             [course_id |-> course.id],
                             TRUE)),
                         <<>>, {})

create_content_gating_partition(course) ==
    IF ~(gating_flag \/ studio_ui_flag)
    THEN Effect(Return(NoneObj), <<>>, {})
    ELSE IF get_scheme("content_type_gate").kind = "raise"
    THEN Effect(Return(NoneObj), <<NoSchemeWarning>>, {})
    ELSE LET used_ids == {course.user_partitions[i].id :
                              i \in 1 .. Len(course.user_partitions)}
         IN  IF CONTENT_GATING_PARTITION_ID \in used_ids
             THEN Effect(Return(NoneObj),
                         <<IdAssignedWarning(
                               CONTENT_GATING_PARTITION_ID,
                               _get_partition_from_id(course.user_partitions,
                                                      CONTENT_GATING_PARTITION_ID).name,
                               course.id)>>,
                         {})
             ELSE Effect(Return(create_user_partition(
                             CONTENT_GATING_PARTITION_ID,
                             "Feature-based Enrollments",
                             "Partition for segmenting users by access to gated content types",
                             NoneObj,
                             [course_id |-> course.id],
                             TRUE)),
                         <<>>, {})

----------------------------------------------------------------------------
(* CourseDurationLimitConfig *)

\* cls.current(course_key): the configuration resolved over the stack
\* (global, site, org, course) for the course
current(course_key) == duration_config[course_key]

\* CourseEnrollment.get_enrollment(user, course_key): the row or None
get_enrollment(user, course_key) == enrollments[<<user, course_key>>]

\* datetime.utcnow().date()
utcnow_date == today

\* bool(self.enabled and self.enabled_as_of <= target_date): `and` yields
\* self.enabled when it is None or False; otherwise the dates are compared, and
\* comparing None with a date raises TypeError
enabled_as_of_date(self, target_date) ==
    IF gating_flag
    THEN Return(TRUE)
    ELSE IF self.enabled # "True"
    THEN Return(FALSE)
    ELSE IF self.enabled_as_of = NoneDate
    THEN Raise("TypeError")
    ELSE Return(self.enabled_as_of <= target_date)

enabled_for_course(course_key, target_date) ==
    IF gating_flag
    THEN Effect(Return(TRUE), <<>>, {})
    ELSE LET date == IF target_date = NoneDate THEN utcnow_date ELSE target_date
             current_config == current(course_key)
         IN  Effect(enabled_as_of_date(current_config, date), <<>>, {"StackedConfig"})

\* the part of enabled_for_enrollment after the checks of its arguments
resolve_enrollment_today(enrollment, user, course_key) ==
    LET key == IF course_key = NoneStr THEN enrollment.course_id ELSE course_key
        found == IF enrollment = NoneObj THEN get_enrollment(user, key) ELSE enrollment
        looked_up == IF enrollment = NoneObj THEN {"CourseEnrollment"} ELSE {}
    IN  LET inner == enabled_for_course(key, utcnow_date)
        IN  Effect(inner.ret, <<>>, looked_up \cup inner.queried)

resolve_enrollment(enrollment, user, course_key) ==
    LET key == IF course_key = NoneStr THEN enrollment.course_id ELSE course_key
        found == IF enrollment = NoneObj THEN get_enrollment(user, key) ELSE enrollment
        looked_up == IF enrollment = NoneObj THEN {"CourseEnrollment"} ELSE {}
    IN  IF found = NoneObj
        THEN LET inner == enabled_for_course(key, utcnow_date)
             IN  Effect(inner.ret, <<>>, looked_up \cup inner.queried)
        ELSE LET current_config == current(found.course_id)
             IN  Effect(enabled_as_of_date(current_config, found.created), <<>>,
                        looked_up \cup {"StackedConfig"})

enabled_for_enrollment_flag_last(enrollment, user, course_key) ==
    IF enrollment # NoneObj /\ (user # NoneStr \/ course_key # NoneStr)
    THEN Effect(Raise("ValueError"), <<>>, {})
    ELSE IF enrollment = NoneObj /\ (user = NoneStr \/ course_key = NoneStr)
    THEN Effect(Raise("ValueError"), <<>>, {})
    ELSE resolve_enrollment(enrollment, user, course_key)

enabled_for_enrollment(enrollment, user, course_key) ==
    IF gating_flag
    THEN Effect(Return(TRUE), <<>>, {})
    ELSE IF enrollment # NoneObj /\ (user # NoneStr \/ course_key # NoneStr)
    THEN Effect(Raise("ValueError"), <<>>, {})
    ELSE IF enrollment = NoneObj /\ (user = NoneStr \/ course_key = NoneStr)
    THEN Effect(Raise("ValueError"), <<>>, {})
    ELSE IF enrollment = NoneObj /\ user = NoneStr /\ course_key = NoneStr
    THEN Effect(Raise("ValueError"), <<>>, {})
    ELSE resolve_enrollment(enrollment, user, course_key)

\* CourseDurationLimitConfig.clean, run by form validation when a record is edited
clean(self) ==
    IF self.enabled = "True" /\ self.enabled_as_of = NoneDate
    THEN Raise("ValidationError")
    ELSE Return(NoneObj)

----------------------------------------------------------------------------
(* The values the stores and the arguments range over *)

UserCourses == Users \X Courses

\* a CourseEnrollment row
Enrollment(user, course_id, mode, is_active, created) ==
    [user |-> user, course_id |-> course_id, mode |-> mode,
     is_active |-> is_active, created |-> created]

\* a CourseMasquerade: user_name is set when a specific student is masqueraded,
\* group is the group of the partition the staff member chose, if any
Masquerades ==
    {NoneObj}
        \cup {[user_name |-> "student", group |-> NoneObj]}
        \cup {[user_name |-> NoneStr, group |-> g] :
                  g \in {LIMITED_ACCESS, FULL_ACCESS, NoneObj}}

\* the resolved fields of a CourseDurationLimitConfig: enabled is a nullable
\* boolean, enabled_as_of a nullable date.  clean() runs in form validation only;
\* a row saved without it can hold enabled = True with enabled_as_of = None
ConfigRecords ==
    [enabled : {"True", "False", "None"}, enabled_as_of : Dates \cup {NoneDate}]

SeqsUpTo(S, n) == UNION {[1 .. k -> S] : k \in 0 .. n}

\* a course as create_content_gating_partition reads it
CourseObjects ==
    [id : Courses,
     user_partitions : SeqsUpTo([id : {50, CONTENT_GATING_PARTITION_ID, 100},
                                 name : {"Enrollment Track", "Imported"}],
                                MaxPartitions)]

NoCall == [op |-> "none"]

Call(op, args, effect) ==
    [op |-> op, args |-> args, ret |-> effect.ret, log |-> effect.log,
     queried |-> effect.queried]

----------------------------------------------------------------------------
(* Group assignment *)

Init ==
    /\ gating_flag \in BOOLEAN
    /\ studio_ui_flag = FALSE
    /\ scheme_registry = {"content_type_gate"}
    /\ course_modes \in [Courses -> SUBSET ModeSlugs]
    /\ \E rows \in [UserCourses -> {NoneObj} \cup (ModeSlugs \X BOOLEAN)] :
           enrollments = [uc \in UserCourses |->
               IF rows[uc] = NoneObj
               THEN NoneObj
               ELSE Enrollment(uc[1], uc[2], rows[uc][1], rows[uc][2], 0)]
    /\ masquerade \in [UserCourses -> Masquerades]
    /\ duration_config = [c \in Courses |-> [enabled |-> "None", enabled_as_of |-> NoneDate]]
    /\ today = 0
    /\ last = NoCall

GetGroupForUser ==
    \E user \in Users, course_key \in Courses :
        LET user_partition ==
                create_user_partition(CONTENT_GATING_PARTITION_ID,
                                      "Feature-based Enrollments", "", NoneObj,
                                      [course_id |-> course_key], TRUE)
        IN  /\ last' = Call("get_group_for_user",
                            [course_key |-> course_key, user |-> user],
                            get_group_for_user(course_key, user, user_partition))
            /\ UNCHANGED <<gating_flag, studio_ui_flag, scheme_registry, course_modes,
                           enrollments, masquerade, duration_config, today>>

Next == GetGroupForUser

Spec == Init /\ [][Next]_vars

----------------------------------------------------------------------------
(* Partition creation at course load *)

InitPartition ==
    /\ gating_flag \in BOOLEAN
    /\ studio_ui_flag \in BOOLEAN
    /\ scheme_registry \in SUBSET {"content_type_gate"}
    /\ course_modes = [c \in Courses |-> {}]
    /\ enrollments = [uc \in UserCourses |-> NoneObj]
    /\ masquerade = [uc \in UserCourses |-> NoneObj]
    /\ duration_config = [c \in Courses |-> [enabled |-> "None", enabled_as_of |-> NoneDate]]
    /\ today = 0
    /\ last = NoCall

CreateContentGatingPartition ==
    \E course \in CourseObjects :
        /\ last' = Call("create_content_gating_partition", [course |-> course],
                        create_content_gating_partition(course))
        /\ UNCHANGED <<gating_flag, studio_ui_flag, scheme_registry, course_modes,
                       enrollments, masquerade, duration_config, today>>

NextPartition == CreateContentGatingPartition

SpecPartition == InitPartition /\ [][NextPartition]_vars

----------------------------------------------------------------------------
(* Course duration limits *)

InitDuration ==
    /\ gating_flag \in BOOLEAN
    /\ studio_ui_flag = FALSE
    /\ scheme_registry = {"content_type_gate"}
    /\ course_modes = [c \in Courses |-> {AUDIT, VERIFIED}]
    /\ \E rows \in [UserCourses -> {NoneDate} \cup Dates] :
           enrollments = [uc \in UserCourses |->
               IF rows[uc] = NoneDate
               THEN NoneObj
               ELSE Enrollment(uc[1], uc[2], AUDIT, TRUE, rows[uc])]
    /\ masquerade = [uc \in UserCourses |-> NoneObj]
    /\ duration_config \in [Courses -> ConfigRecords]
    /\ today \in Dates
    /\ last = NoCall

\* the enrollment objects a caller can hold: rows of the store
EnrollmentObjects == {enrollments[uc] : uc \in UserCourses} \ {NoneObj}

EnabledForEnrollment ==
    \E enrollment \in EnrollmentObjects \cup {NoneObj},
       user \in Users \cup {NoneStr},
       course_key \in Courses \cup {NoneStr} :
        /\ last' = Call("enabled_for_enrollment",
                        [enrollment |-> enrollment, user |-> user,
                         course_key |-> course_key],
                        enabled_for_enrollment(enrollment, user, course_key))
        /\ UNCHANGED <<gating_flag, studio_ui_flag, scheme_registry, course_modes,
                       enrollments, masquerade, duration_config, today>>

EnabledForCourse ==
    \E course_key \in Courses, target_date \in Dates \cup {NoneDate} :
        /\ last' = Call("enabled_for_course",
                        [course_key |-> course_key, target_date |-> target_date],
                        enabled_for_course(course_key, target_date))
        /\ UNCHANGED <<gating_flag, studio_ui_flag, scheme_registry, course_modes,
                       enrollments, masquerade, duration_config, today>>

Clean ==
    \E record \in ConfigRecords :
        /\ last' = Call("clean", [self |-> record], Effect(clean(record), <<>>, {}))
        /\ UNCHANGED <<gating_flag, studio_ui_flag, scheme_registry, course_modes,
                       enrollments, masquerade, duration_config, today>>

NextDuration == EnabledForEnrollment \/ EnabledForCourse \/ Clean

SpecDuration == InitDuration /\ [][NextDuration]_vars

----------------------------------------------------------------------------
(* Properties of get_group_for_user, under Spec *)

GroupCall == last.op = "get_group_for_user"

\* the stores' content for the user and course of the last call
CallMasquerade == masquerade[<<last.args.user, last.args.course_key>>]
CallEnrollment == enrollments[<<last.args.user, last.args.course_key>>]
CallModes == course_modes[last.args.course_key]

\* the caller previews the course as a member of a group, not as a student
GroupMasquerade == CallMasquerade # NoneObj /\ CallMasquerade.user_name = NoneStr
StudentMasquerade == CallMasquerade # NoneObj /\ CallMasquerade.user_name # NoneStr

ActiveEnrollment == CallEnrollment # NoneObj /\ CallEnrollment.is_active
ActiveAudit == ActiveEnrollment /\ CallEnrollment.mode = AUDIT
CourseHasVerified == VERIFIED \in CallModes

\* rules 2 to 5 of the decision table
NormalGroup ==
    IF ~gating_flag \/ ~CourseHasVerified THEN FULL_ACCESS
    ELSE IF ~ActiveEnrollment THEN LIMITED_ACCESS
    ELSE IF CallEnrollment.mode \notin CallModes THEN FULL_ACCESS
    ELSE IF CallEnrollment.mode = AUDIT THEN LIMITED_ACCESS
    ELSE FULL_ACCESS

\* C1 as stated: an active AUDIT enrollment in a course with a verified mode, with
\* the gating flag enabled, gets LIMITED_ACCESS whatever the masquerade state.
C1_AuditLimited_AnyMasquerade ==
    (GroupCall /\ ActiveAudit /\ CourseHasVerified /\ gating_flag)
        => last.ret = Return(LIMITED_ACCESS)

\* C1 amended: when no group masquerade applies and audit is one of the course's
\* modes, an active AUDIT enrollment in a course with a verified mode, with the
\* gating flag enabled, gets LIMITED_ACCESS.
C1_AuditLimited ==
    (GroupCall /\ ~GroupMasquerade /\ ActiveAudit /\ AUDIT \in CallModes
         /\ CourseHasVerified /\ gating_flag)
        => last.ret = Return(LIMITED_ACCESS)

C1_Witness ==
    /\ GroupCall /\ StudentMasquerade /\ ActiveAudit /\ AUDIT \in CallModes
    /\ CourseHasVerified /\ gating_flag
    /\ last.ret = Return(LIMITED_ACCESS)

\* C2 as stated: a course without a verified mode gives FULL_ACCESS for every
\* enrollment, masquerade state and value of the gating flag.
C2_NoVerifiedFull_AnyMasquerade ==
    (GroupCall /\ ~CourseHasVerified) => last.ret = Return(FULL_ACCESS)

\* C2 amended: when no group masquerade applies, a course without a verified mode
\* gives FULL_ACCESS for every enrollment and value of the gating flag.
C2_NoVerifiedFull ==
    (GroupCall /\ ~GroupMasquerade /\ ~CourseHasVerified)
        => last.ret = Return(FULL_ACCESS)

C2_Witness ==
    /\ GroupCall /\ ~GroupMasquerade /\ ~CourseHasVerified
    /\ gating_flag /\ ActiveAudit /\ AUDIT \in CallModes
    /\ last.ret = Return(FULL_ACCESS)

\* C3: under a group masquerade the result is the masquerade's group, for every
\* flag, course modes and enrollment, and neither the course-mode store nor the
\* enrollment store is read; under a specific-student masquerade the result is the
\* one of the normal rules.
C3_MasqueradeOverride ==
    GroupCall =>
        /\ GroupMasquerade =>
               /\ last.ret = Return(CallMasquerade.group)
               /\ last.queried \cap {"CourseMode", "CourseEnrollment"} = {}
        /\ StudentMasquerade => last.ret = Return(NormalGroup)

C3_Witness ==
    /\ GroupCall /\ GroupMasquerade
    /\ CallMasquerade.group = LIMITED_ACCESS
    /\ NormalGroup = FULL_ACCESS
    /\ last.ret = Return(LIMITED_ACCESS)

UnknownMode ==
    /\ ~GroupMasquerade /\ gating_flag /\ CourseHasVerified
    /\ ActiveEnrollment /\ CallEnrollment.mode \notin CallModes

\* C9: an active enrollment in a mode the course does not have (AUDIT included),
\* with no group masquerade, the flag enabled and a verified mode, gets FULL_ACCESS
\* and exactly one error log record; no other path logs anything.
C9_UnknownModeFailsOpen ==
    GroupCall =>
        /\ UnknownMode =>
               /\ last.ret = Return(FULL_ACCESS)
               /\ Len(last.log) = 1
               /\ last.log[1] = [level |-> "error", user |-> last.args.user,
                                 mode |-> CallEnrollment.mode,
                                 course |-> last.args.course_key]
        /\ ~UnknownMode => last.log = <<>>

C9_Witness ==
    /\ GroupCall /\ UnknownMode /\ CallEnrollment.mode = AUDIT
    /\ last.ret = Return(FULL_ACCESS) /\ Len(last.log) = 1

\* C10: with no group masquerade, a user without an enrollment or with an inactive
\* enrollment of any mode gets LIMITED_ACCESS when the flag is enabled and the
\* course has a verified mode, and FULL_ACCESS when the flag is disabled or the
\* course has no verified mode.
C10_DefaultDeny ==
    (GroupCall /\ ~GroupMasquerade /\ ~ActiveEnrollment) =>
        IF gating_flag /\ CourseHasVerified
        THEN last.ret = Return(LIMITED_ACCESS)
        ELSE last.ret = Return(FULL_ACCESS)

C10_Witness ==
    /\ GroupCall /\ ~GroupMasquerade
    /\ CallEnrollment # NoneObj /\ ~CallEnrollment.is_active
    /\ CallEnrollment.mode = VERIFIED
    /\ gating_flag /\ CourseHasVerified
    /\ last.ret = Return(LIMITED_ACCESS)

----------------------------------------------------------------------------
(* Properties of create_content_gating_partition, under SpecPartition *)

PartitionCall == last.op = "create_content_gating_partition"

CoursePartitions == last.args.course.user_partitions

IdTaken ==
    \E i \in 1 .. Len(CoursePartitions) :
        CoursePartitions[i].id = CONTENT_GATING_PARTITION_ID

\* C7 as stated: when the course already has a partition with id 51 the call
\* returns none and logs exactly one warning, for every combination of the two
\* flags and the scheme registry.
C7_CollisionOneWarning_AnyFlags ==
    (PartitionCall /\ IdTaken) =>
        /\ last.ret = Return(NoneObj)
        /\ Len(last.log) = 1
        /\ last.log[1].level = "warning"

\* C7 amended: when the course already has a partition with id 51 the call returns
\* none for every combination of the flags and the registry; it logs exactly one
\* warning when the gating flag or the Studio-UI flag is enabled and nothing when
\* both are disabled.  A Partition it returns never has the id of a partition of
\* the course.
C7_CollisionGuard ==
    PartitionCall =>
        /\ IdTaken =>
               /\ last.ret = Return(NoneObj)
               /\ (gating_flag \/ studio_ui_flag) =>
                      Len(last.log) = 1 /\ last.log[1].level = "warning"
               /\ ~(gating_flag \/ studio_ui_flag) => last.log = <<>>
        /\ last.ret.value # NoneObj =>
               \A i \in 1 .. Len(CoursePartitions) :
                   CoursePartitions[i].id # last.ret.value.id

C7_Witness ==
    /\ PartitionCall /\ IdTaken
    /\ ~gating_flag /\ studio_ui_flag /\ "content_type_gate" \in scheme_registry
    /\ Len(CoursePartitions) = 2 /\ CoursePartitions[1].id = 50
    /\ last.ret = Return(NoneObj)
    /\ last.log = <<[level |-> "warning", what |-> "id assigned",
                     id |-> CONTENT_GATING_PARTITION_ID,
                     partition |-> CoursePartitions[2].name,
                     course |-> last.args.course.id]>>

----------------------------------------------------------------------------
(* Properties of CourseDurationLimitConfig, under SpecDuration *)

EnrollmentCall == last.op = "enabled_for_enrollment"
CourseCall == last.op = "enabled_for_course"

\* enrollment alone, or user and course_key together
ValidArguments ==
    \/ /\ last.args.enrollment # NoneObj
       /\ last.args.user = NoneStr /\ last.args.course_key = NoneStr
    \/ /\ last.args.enrollment = NoneObj
       /\ last.args.user # NoneStr /\ last.args.course_key # NoneStr

\* C4: enabled_for_enrollment raises the invalid-argument error on every call
\* whose arguments are not enrollment alone or user and course_key together, for
\* every value of the gating flag.
C4_InvalidArgumentsRaise ==
    (EnrollmentCall /\ ~ValidArguments) => last.ret = Raise("ValueError")

\* C5: with the gating flag disabled, enabled_for_course returns a boolean for
\* every resolved configuration and target date, never raises, and the boolean is
\* (enabled is true and enabled_as_of <= target date), an unset enabled or
\* enabled_as_of making it false.
C5_DefiniteBoolean ==
    (CourseCall /\ ~gating_flag) =>
        LET config == duration_config[last.args.course_key]
            date == IF last.args.target_date = NoneDate
                    THEN today ELSE last.args.target_date
        IN  /\ last.ret.kind = "return"
            /\ last.ret.value = (/\ config.enabled = "True"
                                 /\ config.enabled_as_of # NoneDate
                                 /\ config.enabled_as_of <= date)

\* C6: with the gating flag enabled, enabled_for_enrollment (on valid arguments)
\* and enabled_for_course return true for every configuration, enrollment creation
\* date and target date, and read neither the stacked configuration nor the
\* enrollment store.
C6_FlagShortCircuit ==
    (gating_flag /\ ((EnrollmentCall /\ ValidArguments) \/ CourseCall)) =>
        /\ last.ret = Return(TRUE)
        /\ last.queried = {}

C6_Witness ==
    /\ gating_flag /\ EnrollmentCall
    /\ last.args.enrollment # NoneObj /\ last.args.user = NoneStr
    /\ last.args.course_key = NoneStr
    /\ duration_config[last.args.enrollment.course_id].enabled = "True"
    /\ duration_config[last.args.enrollment.course_id].enabled_as_of
           > last.args.enrollment.created
    /\ last.ret = Return(TRUE)

\* the enrollment the call is about: the one given, or the row of (user, course_key)
EffectiveEnrollment ==
    IF last.args.enrollment # NoneObj
    THEN last.args.enrollment
    ELSE enrollments[<<last.args.user, last.args.course_key>>]

\* C8: with the gating flag disabled and valid arguments, the outcome of
\* enabled_for_enrollment is the configuration resolved for the enrollment's course
\* evaluated at the enrollment's creation date; when (user, course_key) has no
\* enrollment it is the configuration of course_key evaluated today, which is the
\* outcome of enabled_for_course(course_key, today).
C8_EvaluatedAtEnrollmentDate ==
    (EnrollmentCall /\ ~gating_flag /\ ValidArguments) =>
        IF EffectiveEnrollment = NoneObj
        THEN /\ last.ret = enabled_as_of_date(
                               duration_config[last.args.course_key], today)
             /\ last.ret = enabled_for_course(last.args.course_key, today).ret
        ELSE last.ret = enabled_as_of_date(
                            duration_config[EffectiveEnrollment.course_id],
                            EffectiveEnrollment.created)

C8_Witness ==
    /\ EnrollmentCall /\ ~gating_flag
    /\ last.args.enrollment = NoneObj /\ last.args.user # NoneStr
    /\ last.args.course_key # NoneStr
    /\ EffectiveEnrollment # NoneObj
    /\ EffectiveEnrollment.created < today
    /\ duration_config[last.args.course_key] =
           [enabled |-> "True", enabled_as_of |-> today]
    /\ last.ret = Return(FALSE)

====
